---- MODULE Spec2Model ----
(***************************************************************************)
(* Model of the twitter-fact-checker browser extension: the content        *)
(* script (src/extension/content.js) with its request queue, cache, DOM    *)
(* annotation and toggle handling, and the popup's cache-clear and toggle  *)
(* handlers (src/extension/popup.js).                                      *)
(*                                                                         *)
(* Strings are sequences of one-character strings.  The innerHTML of a     *)
(* tweet's text element is kept as the character string the browser        *)
(* serialises, so that applyMarkup's regular-expression replace acts on    *)
(* the same characters as in the code.                                     *)
(***************************************************************************)
EXTENDS Integers, Sequences, FiniteSets, TLC

(***************************************************************************)
(* Characters and strings                                                  *)
(***************************************************************************)

\* n copies of the character c.
Rep(c, n) == [i \in 1..n |-> c]

\* String.prototype.toLowerCase on one character (what the regex flag "i"
\* compares by).
Lower(c) ==
  CASE c = "A" -> "a" [] c = "B" -> "b" [] c = "C" -> "c" [] c = "D" -> "d"
    [] c = "E" -> "e" [] c = "F" -> "f" [] c = "G" -> "g" [] c = "H" -> "h"
    [] c = "I" -> "i" [] c = "J" -> "j" [] c = "K" -> "k" [] c = "L" -> "l"
    [] c = "M" -> "m" [] c = "N" -> "n" [] c = "O" -> "o" [] c = "P" -> "p"
    [] c = "Q" -> "q" [] c = "R" -> "r" [] c = "S" -> "s" [] c = "T" -> "t"
    [] c = "U" -> "u" [] c = "V" -> "v" [] c = "W" -> "w" [] c = "X" -> "x"
    [] c = "Y" -> "y" [] c = "Z" -> "z" [] OTHER -> c

\* String.prototype.charCodeAt for the characters the model's texts use.
CharCode(c) ==
  CASE c = " " -> 32  [] c = "[" -> 91  [] c = "]" -> 93
    [] c = "A" -> 65  [] c = "B" -> 66  [] c = "G" -> 71  [] c = "I" -> 73
    [] c = "S" -> 83  [] c = "T" -> 84
    [] c = "a" -> 97  [] c = "b" -> 98  [] c = "c" -> 99  [] c = "d" -> 100
    [] c = "e" -> 101 [] c = "f" -> 102 [] c = "g" -> 103 [] c = "h" -> 104
    [] c = "i" -> 105 [] c = "k" -> 107 [] c = "l" -> 108 [] c = "n" -> 110
    [] c = "o" -> 111 [] c = "r" -> 114 [] c = "s" -> 115 [] c = "t" -> 116
    [] c = "u" -> 117 [] c = "x" -> 120 [] c = "y" -> 121
    [] OTHER -> 63

\* Left-to-right fold of Step over the indices lo..hi, from state st.  The
\* range is halved at each call, and the left half's result is compared with
\* itself so that it is evaluated before the right half starts: the
\* evaluation depth stays logarithmic in hi - lo.
RECURSIVE FoldIdx(_, _, _, _)
FoldIdx(Step(_, _), st, lo, hi) ==
  IF lo > hi THEN st
  ELSE IF lo = hi THEN Step(st, lo)
  ELSE LET mid == (lo + hi) \div 2
           left == FoldIdx(Step, st, lo, mid)
       IN IF left = left THEN FoldIdx(Step, left, mid + 1, hi) ELSE st

\* String.prototype.trim, for the blank the model's texts can hold.
Trim(s) ==
  LET solid == {i \in 1..Len(s) : s[i] # " "}
      Min(S) == CHOOSE x \in S : \A y \in S : x <= y
      Max(S) == CHOOSE x \in S : \A y \in S : x >= y
  IN IF solid = {} THEN <<>> ELSE SubSeq(s, Min(solid), Max(solid))

\* TRUE iff p occurs in s at position i, compared case-insensitively.
MatchAt(s, p, i) ==
  /\ i + Len(p) - 1 <= Len(s)
  /\ \A k \in 1..Len(p) : Lower(s[i + k - 1]) = Lower(p[k])

\* TRUE iff p occurs in s somewhere (case-insensitively).
Occurs(s, p) == \E i \in 1..Len(s) : MatchAt(s, p, i)

(***************************************************************************)
(* The HTML the renderer writes and reads                                  *)
(***************************************************************************)

\* content.js:237, the opening tag of the replacement string.
IncorrectOpen ==
  <<"<","s","p","a","n"," ","c","l","a","s","s","=","\"","f","a","c","t",
    "c","h","e","c","k","-","i","n","c","o","r","r","e","c","t","\""," ",
    "d","a","t","a","-","f","a","c","t","c","h","e","c","k","-","m","a","r",
    "k","u","p","=","\"","r","e","d","\"",">">>

\* content.js:244-248, the opening tag of correctionSpan.outerHTML.
CorrectionOpen ==
  <<"<","s","p","a","n"," ","c","l","a","s","s","=","\"","f","a","c","t",
    "c","h","e","c","k","-","c","o","r","r","e","c","t","i","o","n","\"",
    " ","d","a","t","a","-","f","a","c","t","c","h","e","c","k","-","m","a",
    "r","k","u","p","=","\"","g","r","e","e","n","\"",">">>

\* content.js:220-223, the opening tag the verified badge serialises to.
VerifiedOpen ==
  <<"<","s","p","a","n"," ","c","l","a","s","s","=","\"","f","a","c","t",
    "c","h","e","c","k","-","v","e","r","i","f","i","e","d","\""," ","d",
    "a","t","a","-","f","a","c","t","c","h","e","c","k","-","b","a","d","g",
    "e","=","\"","t","r","u","e","\"",">">>

SpanClose ==
  <<"<","/","s","p","a","n",">">>

\* content.js:222, the badge's text; "^" stands for the check mark U+2713.
VerifiedText ==
  <<"^"," ","F","a","c","t","-","c","h","e","c","k","e","d">>

\* The attribute names removeAllMarkups selects by (content.js:431-432).
MarkupAttr ==
  <<"d","a","t","a","-","f","a","c","t","c","h","e","c","k","-","m","a","r",
    "k","u","p">>

BadgeAttr ==
  <<"d","a","t","a","-","f","a","c","t","c","h","e","c","k","-","b","a","d",
    "g","e">>

\* Exact (case-sensitive) occurrence of p in s at i.
ExactAt(s, p, i) ==
  /\ i + Len(p) - 1 <= Len(s)
  /\ \A k \in 1..Len(p) : s[i + k - 1] = p[k]

\* Number of exact occurrences of p in s.
CountOcc(s, p) == Cardinality({i \in 1..Len(s) : ExactAt(s, p, i)})

\* The HTML tokenizer's state after character c, as far as it decides what
\* is text and what is tag: "text" outside tags, "tag" inside a tag and
\* outside attribute values, "eq" after the "=" of an attribute, "quote"
\* inside a double-quoted value, "bare" inside an unquoted value.  A quote
\* opens a value only after "="; anywhere else inside a tag it is part of
\* an attribute name.
TagStep(mode, c) ==
  CASE mode = "text" -> IF c = "<" THEN "tag" ELSE "text"
    [] mode = "tag" ->
         IF c = ">" THEN "text" ELSE IF c = "=" THEN "eq" ELSE "tag"
    [] mode = "eq" ->
         IF c = "\"" THEN "quote"
         ELSE IF c = ">" THEN "text"
         ELSE IF c = " " THEN "eq"
         ELSE "bare"
    [] mode = "quote" -> IF c = "\"" THEN "tag" ELSE "quote"
    [] mode = "bare" ->
         IF c = " " THEN "tag" ELSE IF c = ">" THEN "text" ELSE "bare"

\* Index of the ">" that ends the tag whose "<" is at i; a ">" inside a
\* quoted attribute value does not end the tag.  Len(s) when the tag is
\* never closed.
TagEnd(s, i) ==
  LET Step(st, j) ==
        IF st.end > 0 THEN st
        ELSE LET mode == TagStep(st.mode, s[j])
             IN [mode |-> mode, end |-> IF mode = "text" THEN j ELSE 0]
      scan == FoldIdx(Step, [mode |-> "tag", end |-> 0], i + 1, Len(s))
  IN IF scan.end = 0 THEN Len(s) ELSE scan.end

IsOpenTagAt(s, i) == s[i] = "<" /\ i < Len(s) /\ s[i + 1] # "/"
IsCloseTagAt(s, i) == s[i] = "<" /\ i < Len(s) /\ s[i + 1] = "/"

\* Node.textContent of an element whose innerHTML is s: the characters the
\* tokenizer reads as text.
TextContent(s) ==
  LET Step(st, i) ==
        LET mode == TagStep(st.mode, s[i])
        IN [mode |-> mode,
            out |-> IF st.mode = "text" /\ mode = "text"
                      THEN st.out \o <<s[i]>>
                      ELSE st.out]
  IN FoldIdx(Step, [mode |-> "text", out |-> <<>>], 1, Len(s)).out

\* Index just after the close tag that matches the open tag ending at j:
\* the first close tag after j that has as many open tags as close tags
\* between j and itself.  Len(s) + 1 when there is none.
ElementEnd(s, j) ==
  LET Opens(k) == Cardinality({m \in (j + 1)..(k - 1) : IsOpenTagAt(s, m)})
      Closes(k) == Cardinality({m \in (j + 1)..(k - 1) : IsCloseTagAt(s, m)})
      ends == {k \in (j + 1)..Len(s) : IsCloseTagAt(s, k) /\ Opens(k) = Closes(k)}
  IN IF ends = {} THEN Len(s) + 1
     ELSE TagEnd(s, CHOOSE k \in ends : \A m \in ends : k <= m) + 1

\* querySelectorAll('[attr]').forEach(el => el.remove()) inside an element
\* whose innerHTML is s: every element whose open tag carries the attribute
\* is dropped with all it contains.
RemoveByAttr(s, attr) ==
  LET Step(st, i) ==
        IF i < st.skip THEN st
        ELSE IF IsOpenTagAt(s, i) /\ Occurs(SubSeq(s, i, TagEnd(s, i)), attr)
          THEN [st EXCEPT !.skip = ElementEnd(s, TagEnd(s, i))]
        ELSE [st EXCEPT !.out = @ \o <<s[i]>>]
  IN FoldIdx(Step, [skip |-> 1, out |-> <<>>], 1, Len(s)).out

\* String.prototype.replace(new RegExp(`(${escaped})`, 'gi'), '<span ...>$1</span>')
\* (content.js:235-237): the phrase is escaped, so the pattern matches the
\* phrase literally; matches are found left to right, case-insensitively and
\* without overlap, and the matched characters are kept as they are in s.
\* An empty phrase matches the empty string before every character and at
\* the end.
ReplacePhrase(s, p) ==
  LET Step(st, i) ==
        IF i < st.skip THEN st
        ELSE IF p = <<>>
          THEN [st EXCEPT !.out = @ \o IncorrectOpen \o SpanClose \o <<s[i]>>]
        ELSE IF MatchAt(s, p, i)
          THEN [skip |-> i + Len(p),
                out |-> st.out \o IncorrectOpen \o SubSeq(s, i, i + Len(p) - 1)
                          \o SpanClose]
        ELSE [st EXCEPT !.out = @ \o <<s[i]>>]
      done == FoldIdx(Step, [skip |-> 1, out |-> <<>>], 1, Len(s)).out
  IN IF p = <<>> THEN done \o IncorrectOpen \o SpanClose ELSE done

\* result.incorrect.forEach(...) (content.js:233-239): one replace per
\* phrase, each on the HTML the previous one produced.
RECURSIVE MarkIncorrect(_, _)
MarkIncorrect(html, phrases) ==
  IF phrases = <<>> THEN html
  ELSE MarkIncorrect(ReplacePhrase(html, Head(phrases)), Tail(phrases))

\* result.corrections.forEach(...) (content.js:242-250): one span per
\* correction, text " [correction]", appended to the HTML in list order.
RECURSIVE AppendCorrections(_, _)
AppendCorrections(html, corrections) ==
  IF corrections = <<>> THEN html
  ELSE AppendCorrections(
         html \o CorrectionOpen \o <<" ", "[">> \o Head(corrections) \o <<"]">>
              \o SpanClose,
         Tail(corrections))

(***************************************************************************)
(* Program constants                                                       *)
(***************************************************************************)

CACHE_EXPIRY_DAYS == 7
MIN_REQUEST_INTERVAL == 3000
MAX_CONCURRENT_REQUESTS == 1
DEFAULT_ENABLED == TRUE

\* CACHE_EXPIRY_DAYS * 24 * 60 * 60 * 1000 (content.js:94).
CacheExpiryMs == CACHE_EXPIRY_DAYS * 24 * 60 * 60 * 1000

\* The length below which a text is not checked (content.js:351, :460).
MinTextLength == 50

\* Delays of the setTimeout / setInterval calls, in milliseconds.
SettleDelay == 200
ToggleScanDelay == 500
ObserverScanDelay == 500
FirstScanDelay == 2000
FlushDelay == 5000
SaveInterval == 30000

(***************************************************************************)
(* Bounds of the model                                                     *)
(***************************************************************************)

\* Number of tweet articles on the page.
NumTweets == 2
\* Date.now() when the content script starts.
StartTime == 100000
\* Time is advanced in steps of TickStep, at most MaxElapsed past the start
\* or past a long sleep.
TickStep == 1000
MaxElapsed == 4000
\* Toggle messages the popup has sent and the content script has not yet
\* received.
MaxMessages == 1
\* Clicks on the popup's toggle in one session.
MaxToggles == 2
\* Timers armed by the host page's mutations that have not fired yet.
MaxHostScans == 1
\* Runs of applyMarkup on one tweet article when the renderer is taken on
\* its own.
MaxRenders == 2
\* Clicks on the popup's toggle in a session whose storage reads are slow.
MaxTogglesSlow == 3
\* How far ticks go when the request queue is followed over a longer run.
MaxElapsedQueue == 5000
\* How far ticks go while the request queue is empty or a call is in
\* flight, when the queue is followed until it has drained.
MaxElapsedIdle == 3000

Tweets == 1..NumTweets

(***************************************************************************)
(* Texts and verdicts the model draws from                                 *)
(***************************************************************************)

PhraseGreen ==
  <<"s","k","y"," ","i","s"," ","g","r","e","e","n">>

PhraseBlue ==
  <<"s","k","y"," ","i","s"," ","b","l","u","e">>

LeadIssue ==
  <<"T","h","e"," ","S","k","y"," ","I","s"," ","G","r","e","e","n"," ">>

\* 49 characters: one short of the threshold.
TextShort == Rep("a", MinTextLength - 1)
\* Exactly 50 characters.
TextPlain == Rep("b", MinTextLength)
\* 60 characters, holding the phrase "Sky Is Green".
TextIssue == LeadIssue \o Rep("c", 43)

Texts == {TextShort, TextPlain, TextIssue}

\* Verdicts of the verification service (route.ts:121-127).
VerdictOk == [hasIssues |-> FALSE, incorrect |-> <<>>, corrections |-> <<>>]
VerdictIssue ==
  [hasIssues |-> TRUE, incorrect |-> <<PhraseGreen>>, corrections |-> <<PhraseBlue>>]

Verdicts == {VerdictOk, VerdictIssue}

PhraseRed ==
  <<"r","e","d">>

\* Verdicts whose two lists differ in length: the analysis is whatever JSON
\* the language model returned (route.ts:112, :121-127).
VerdictCorrectionsOnly ==
  [hasIssues |-> TRUE, incorrect |-> <<>>, corrections |-> <<PhraseBlue, PhraseGreen>>]
VerdictPhrasesOnly ==
  [hasIssues |-> TRUE, incorrect |-> <<PhraseGreen, PhraseRed>>, corrections |-> <<>>]
\* A verdict whose incorrect phrase is not in any of the texts.
VerdictAbsentPhrase ==
  [hasIssues |-> TRUE, incorrect |-> <<PhraseBlue>>, corrections |-> <<PhraseBlue>>]

MarkupVerdicts ==
  Verdicts \cup {VerdictCorrectionsOnly, VerdictPhrasesOnly, VerdictAbsentPhrase}

\* An entry of a verdict's list that is not a string (a number, null, an
\* object): the service passes the parsed JSON of the language model on
\* without looking at its entries (route.ts:112, :121-123).
NotAString == <<"number">>

\* A verdict that parses, is truthy and has a wrong-shaped incorrect list.
VerdictMalformed ==
  [hasIssues |-> TRUE, incorrect |-> <<NotAString>>, corrections |-> <<>>]

(***************************************************************************)
(* Identity                                                                *)
(***************************************************************************)

\* generateTweetId (content.js:143-151): hash = ((hash << 5) - hash) + char,
\* truncated to 32 bits at every step, then printed in decimal.  The 32-bit
\* value is carried as two 16-bit halves so that no intermediate result
\* leaves the range of the checker's integers.
HashStep(h, code) ==
  LET lo == h.lo * 31 + code
      hi == h.hi * 31 + (lo \div 65536)
  IN [hi |-> hi % 65536, lo |-> lo % 65536]

\* The signed 32-bit integer two halves stand for.
ToInt32(h) ==
  IF h.hi >= 32768 THEN (h.hi - 65536) * 65536 + h.lo
  ELSE h.hi * 65536 + h.lo

generateTweetId(text) ==
  LET Step(h, i) == HashStep(h, CharCode(text[i]))
  IN ToString(ToInt32(FoldIdx(Step, [hi |-> 0, lo |-> 0], 1, Len(text))))

(***************************************************************************)
(* State                                                                   *)
(***************************************************************************)

VARIABLES
  now,               \* Date.now()
  contextValid,      \* chrome.runtime?.id is defined
  storedEnabled,     \* chrome.storage.local[TOGGLE_KEY]: "unset", "true", "false"
  store,             \* chrome.storage.local[CACHE_KEY]
  messages,          \* extensionToggle messages sent and not yet received
  toggles,           \* history: how often the popup's toggle was clicked
  initPc,            \* where init() is: "loadEnabled", "loadCache", "done"
  observerOn,        \* initObserver() has run
  extensionEnabled,  \* content.js:18
  tweetCache,        \* content.js:2, tweetId -> result
  flushTimeout,      \* saveCache.timeout: "null", "armed", "saving"
  tweets,            \* the tweet articles of the page
  requestQueue,      \* content.js:7
  inFlight,          \* requests handed to checkTweet and not yet settled
  isProcessingQueue, \* content.js:8
  lastRequestTime,   \* content.js:9
  activeRequests,    \* content.js:11
  processingTweets,  \* content.js:23
  timers,            \* pending setTimeout / setInterval callbacks, by due time
  callLog,           \* history: the verification calls issued so far
  last,              \* history: the last handler that ran and how it ended
  hostPage,          \* history: the tweet articles as the host page rendered them
  expiresAt          \* history: tweetId -> when the entry's lifetime ends

\* The variables by the part of the system they belong to.
envVars == <<contextValid, storedEnabled, messages, toggles>>
sessionVars == <<initPc, observerOn, extensionEnabled>>
schedVars ==
  <<requestQueue, inFlight, isProcessingQueue, lastRequestTime, activeRequests,
    callLog>>

vars ==
  <<now, envVars, sessionVars, store, tweetCache, flushTimeout, tweets,
    schedVars, processingTweets, timers, last, hostPage, expiresAt>>

\* The map with no key.
EmptyMap == [k \in {} |-> k]

\* Map m with key k set to v.
Put(m, k, v) == [x \in DOMAIN m \cup {k} |-> IF x = k THEN v ELSE m[x]]

\* A tweet without a check button.
NoButton == [present |-> FALSE, disabled |-> FALSE, hidden |-> FALSE]

\* The button addCheckButton creates (content.js:477-480).
NewButton == [present |-> TRUE, disabled |-> FALSE, hidden |-> FALSE]

\* A tweet article as the host page renders it: textEl says whether it holds
\* a [data-testid="tweetText"] element, html is that element's innerHTML,
\* warn counts the warning badges inserted before it, factChecked and
\* hasResult are dataset.factChecked and dataset.factcheckResult.
HostTweet(text) ==
  [textEl |-> TRUE, html |-> text, warn |-> 0, factChecked |-> "none",
   hasResult |-> FALSE, button |-> NoButton]

\* A tweet article that holds no text element (media only).
BareTweet ==
  [textEl |-> FALSE, html |-> <<>>, warn |-> 0, factChecked |-> "none",
   hasResult |-> FALSE, button |-> NoButton]

\* extractTweetText (content.js:136-140); "absent" is its null.
HasText(t) == t.textEl
extractTweetText(t) == Trim(TextContent(t.html))

\* A length filter whose threshold is one character lower.
TooShortByOne(text) == text = <<>> \/ Len(text) < MinTextLength - 1

\* content.js:351 and :460, !tweetText || tweetText.length < 50.
TooShort(text) == text = <<>> \/ Len(text) < MinTextLength

(***************************************************************************)
(* Annotation renderer                                                     *)
(***************************************************************************)

\* A renderer that pairs corrections with incorrect phrases by position: a
\* correction without an incorrect phrase at its index is left out.
applyMarkupPaired(t, result) ==
  LET paired == IF Len(result.corrections) <= Len(result.incorrect)
                  THEN result.corrections
                  ELSE SubSeq(result.corrections, 1, Len(result.incorrect))
  IN IF ~t.textEl THEN t
     ELSE IF ~result.hasIssues
       THEN [t EXCEPT !.factChecked = "true",
                      !.html = @ \o VerifiedOpen \o VerifiedText \o SpanClose]
     ELSE [t EXCEPT !.factChecked = "true",
                    !.html = AppendCorrections(MarkIncorrect(@, result.incorrect),
                                               paired),
                    !.warn = @ + 1,
                    !.hasResult = TRUE]

\* applyMarkup throws: phrase.replace is not a function when an entry of
\* result.incorrect is not a string (content.js:234-235).
RenderThrows(t, result) ==
  /\ t.textEl
  /\ result.hasIssues
  /\ \E i \in 1..Len(result.incorrect) : result.incorrect[i] = NotAString

\* applyMarkup (content.js:211-263).  When it throws, the flag of line 216
\* is set and the text element is as it was: innerHTML is assigned at line
\* 252, after the loops.
applyMarkup(t, result) ==
  IF ~t.textEl THEN t
  ELSE IF ~result.hasIssues
    THEN [t EXCEPT !.factChecked = "true",
                   !.html = @ \o VerifiedOpen \o VerifiedText \o SpanClose]
  ELSE IF RenderThrows(t, result)
    THEN [t EXCEPT !.factChecked = "true"]
  ELSE [t EXCEPT !.factChecked = "true",
                 !.html = AppendCorrections(MarkIncorrect(@, result.incorrect),
                                            result.corrections),
                 !.warn = @ + 1,
                 !.hasResult = TRUE]

\* removeAllMarkups (content.js:430-439), for one tweet article.
removeAllMarkups(t) ==
  [t EXCEPT !.html = RemoveByAttr(RemoveByAttr(@, MarkupAttr), BadgeAttr),
            !.warn = 0,
            !.button = NoButton,
            !.factChecked = "none",
            !.hasResult = IF t.factChecked # "none" THEN FALSE ELSE @]

\* addCheckButton (content.js:442-548).
addCheckButton(t) ==
  IF t.button.present THEN t
  ELSE IF t.factChecked = "true" THEN t
  ELSE IF ~t.textEl THEN t
  ELSE IF TooShort(extractTweetText(t)) THEN t
  ELSE [t EXCEPT !.button = NewButton]

(***************************************************************************)
(* Timers                                                                  *)
(***************************************************************************)

\* setTimeout(fn, delay): the callback joins the pending timers, which run
\* in the order of their due times and, for equal due times, in the order
\* they were armed.
AddTimer(ts, fn, due) ==
  LET before == Cardinality({i \in 1..Len(ts) : ts[i].due <= due})
  IN SubSeq(ts, 1, before) \o <<[fn |-> fn, due |-> due]>>
       \o SubSeq(ts, before + 1, Len(ts))

\* The timers that run processTweets: the ones init and the onMessage
\* listener arm are named "processTweets", the ones the observer's callback
\* arms are named "observerScan".
ScanTimers == {"processTweets", "observerScan"}

\* The MutationObserver callback of initObserver (content.js:554-568), run
\* after a handler that added nodes to the page.
ObserverScan(ts, added) ==
  IF added /\ observerOn /\ extensionEnabled
    THEN AddTimer(ts, "observerScan", now + ObserverScanDelay)
    ELSE ts

(***************************************************************************)
(* Cache                                                                   *)
(***************************************************************************)

\* chrome.storage.local without the cache key.
NoStore == [set |-> FALSE, obj |-> EmptyMap]

\* The object saveCache writes (content.js:92-104): every entry of
\* tweetCache, each with expiry = now + CACHE_EXPIRY_DAYS.
Snapshot ==
  [set |-> TRUE,
   obj |-> [id \in DOMAIN tweetCache |->
              [result |-> tweetCache[id],
               expiry |-> now + CacheExpiryMs,
               cachedAt |-> now]]]

\* saveCache (content.js:88-110): what chrome.storage.local holds after it.
saveCache == IF contextValid THEN Snapshot ELSE store

\* saveCacheEntry's guard (content.js:114).
EntrySaved == contextValid

\* saveCacheEntry (content.js:113-123): tweetCache after the call.
saveCacheEntry(cache, tweetId, result) ==
  IF EntrySaved THEN Put(cache, tweetId, result) ELSE cache

\* loadCache (content.js:59-85): tweetCache after the call.
loadCache(cache) ==
  IF contextValid /\ store.set
    THEN LET live == {id \in DOMAIN store.obj : store.obj[id].expiry > now}
         IN [id \in DOMAIN cache \cup live |->
               IF id \in live THEN store.obj[id].result ELSE cache[id]]
    ELSE cache

\* The lifetimes of the entries loadCache takes over from storage.
loadExpiry(exp) ==
  IF contextValid /\ store.set
    THEN LET live == {id \in DOMAIN store.obj : store.obj[id].expiry > now}
         IN [id \in DOMAIN exp \cup live |->
               IF id \in live THEN store.obj[id].expiry ELSE exp[id]]
    ELSE exp

(***************************************************************************)
(* Request scheduler                                                       *)
(***************************************************************************)

\* The scheduler's variables as one record, so that processRequestQueue can
\* be written as a function of them.
Sched ==
  [queue |-> requestQueue, busy |-> isProcessingQueue, active |-> activeRequests,
   lastReq |-> lastRequestTime, flight |-> inFlight, timers |-> timers,
   log |-> callLog]

\* A loop condition that lets one call more through.
CanDispatchUpTo(active) == active <= MAX_CONCURRENT_REQUESTS

\* The loop condition's second conjunct (content.js:277).
CanDispatch(active) == active < MAX_CONCURRENT_REQUESTS

\* A loop that never waits.
WaitTimeNone(timeSinceLastRequest) == 0

\* content.js:281-285: how long the loop waits before it dispatches.
WaitTime(timeSinceLastRequest) ==
  IF timeSinceLastRequest < MIN_REQUEST_INTERVAL
    THEN MIN_REQUEST_INTERVAL - timeSinceLastRequest
    ELSE 0

\* A dispatcher that takes the request pushed last.
DispatchLast(S) ==
  LET n == Len(S.queue)
  IN [S EXCEPT !.queue = SubSeq(@, 1, n - 1),
               !.active = @ + 1,
               !.lastReq = now,
               !.flight = Append(@, S.queue[n]),
               !.log = Append(@, [id |-> S.queue[n].id,
                                  len |-> Len(S.queue[n].text),
                                  seq |-> S.queue[n].seq,
                                  at |-> now])]

\* A dispatcher that leaves the request it dispatches in the queue.
DispatchKeep(S) ==
  [S EXCEPT !.active = @ + 1,
            !.lastReq = now,
            !.flight = Append(@, Head(S.queue)),
            !.log = Append(@, [id |-> Head(S.queue).id,
                               len |-> Len(Head(S.queue).text),
                               seq |-> Head(S.queue).seq,
                               at |-> now])]

\* content.js:287-293: pop the head and hand it to checkTweet.  Popping an
\* empty queue throws, which leaves isProcessingQueue set.
Dispatch(S) ==
  [S EXCEPT !.queue = Tail(@),
            !.active = @ + 1,
            !.lastReq = now,
            !.flight = Append(@, Head(S.queue)),
            !.log = Append(@, [id |-> Head(S.queue).id,
                               len |-> Len(Head(S.queue).text),
                               seq |-> Head(S.queue).seq,
                               at |-> now])]

\* The while loop of processRequestQueue from its condition on
\* (content.js:277-333).  It either suspends in the rate-limit wait, leaving
\* a "resume" timer, or runs to the end and clears isProcessingQueue.
RECURSIVE Loop(_)
Loop(S) ==
  IF S.queue # <<>> /\ CanDispatch(S.active)
    THEN IF WaitTime(now - S.lastReq) > 0
           THEN [S EXCEPT !.timers =
                   AddTimer(@, "resume", now + WaitTime(now - S.lastReq))]
           ELSE Loop(Dispatch(S))
    ELSE [S EXCEPT !.busy = FALSE]

\* A loop that does not go on after its rate-limit wait.
ResumeIdle(S) == S

\* The loop after its rate-limit wait (content.js:287 on).
Resume(S) == IF S.queue = <<>> THEN S ELSE Loop(Dispatch(S))

\* processRequestQueue (content.js:266-334).
processRequestQueue(S) ==
  IF S.busy \/ S.queue = <<>> THEN S
  ELSE Loop([S EXCEPT !.busy = TRUE])

\* The scheduler's variables take the values of record S.
SetSched(S) ==
  /\ requestQueue' = S.queue
  /\ isProcessingQueue' = S.busy
  /\ activeRequests' = S.active
  /\ lastRequestTime' = S.lastReq
  /\ inFlight' = S.flight
  /\ timers' = S.timers
  /\ callLog' = S.log

(***************************************************************************)
(* Initial state                                                           *)
(***************************************************************************)

\* What a previous session may have left in storage: nothing, or a snapshot
\* with a verdict for TextPlain that expires two ticks after the start and
\* a verdict for TextIssue that has expired.
StoredSnapshot ==
  [set |-> TRUE,
   obj |-> (generateTweetId(TextPlain) :>
              [result |-> VerdictOk,
               expiry |-> StartTime + 2 * TickStep,
               cachedAt |-> StartTime + 2 * TickStep - CacheExpiryMs])
           @@ (generateTweetId(TextIssue) :>
              [result |-> VerdictIssue,
               expiry |-> StartTime,
               cachedAt |-> StartTime - CacheExpiryMs])]

Page == {HostTweet(text) : text \in Texts} \cup {BareTweet}

\* The pages the model starts from: the first tweet is any of Page, the
\* others repeat TextPlain, so that a page can hold a short tweet, a tweet
\* without text, two tweets of one identity or two of different identities.
Layouts ==
  {page \in [Tweets -> Page] :
     \A e \in Tweets \ {1} : page[e] = HostTweet(TextPlain)}

Init ==
  /\ now = StartTime
  /\ contextValid = TRUE
  /\ storedEnabled \in {"unset", "false"}
  /\ store \in {NoStore, StoredSnapshot}
  /\ messages = <<>>
  /\ toggles = 0
  /\ initPc = "loadEnabled"
  /\ observerOn = FALSE
  /\ extensionEnabled = TRUE
  /\ tweetCache = EmptyMap
  /\ flushTimeout = "null"
  /\ hostPage \in Layouts
  /\ tweets = hostPage
  /\ expiresAt = EmptyMap
  /\ requestQueue = <<>>
  /\ inFlight = <<>>
  /\ isProcessingQueue = FALSE
  /\ lastRequestTime = 0
  /\ activeRequests = 0
  /\ processingTweets = {}
  /\ timers = <<>>
  /\ callLog = <<>>
  /\ last = [op |-> "start", el |-> 0, outcome |-> "none"]

Did(op, el, outcome) == last' = [op |-> op, el |-> el, outcome |-> outcome]

(***************************************************************************)
(* Initialisation (content.js:577-617)                                     *)
(***************************************************************************)

\* loadEnabledState (content.js:29-38) gets its answer from storage.
InitLoadEnabled ==
  /\ initPc = "loadEnabled"
  /\ extensionEnabled' =
       IF contextValid /\ storedEnabled # "unset"
         THEN storedEnabled = "true"
         ELSE DEFAULT_ENABLED
  /\ initPc' = "loadCache"
  /\ UNCHANGED <<now, contextValid, storedEnabled, store, messages, toggles, observerOn,
                 tweetCache, flushTimeout, tweets, requestQueue, inFlight,
                 isProcessingQueue, lastRequestTime, activeRequests,
                 processingTweets, timers, callLog,
                 last, hostPage, expiresAt>>

\* loadCache gets its answer, and init runs to its end (content.js:582-616):
\* a disabled session stops there; an enabled one arms the first scan, starts
\* the observer and the periodic save.
InitLoadCache ==
  /\ initPc = "loadCache"
  /\ tweetCache' = loadCache(tweetCache)
  /\ expiresAt' = loadExpiry(expiresAt)
  /\ initPc' = "done"
  /\ IF extensionEnabled
       THEN /\ observerOn' = TRUE
            /\ timers' = AddTimer(AddTimer(timers, "processTweets", now + FirstScanDelay),
                                  "saveCache", now + SaveInterval)
       ELSE UNCHANGED <<observerOn, timers>>
  /\ UNCHANGED <<now, contextValid, storedEnabled, store, messages, toggles,
                 extensionEnabled, flushTimeout, tweets, requestQueue, inFlight,
                 isProcessingQueue, lastRequestTime, activeRequests,
                 processingTweets, callLog,
                 last, hostPage>>

(***************************************************************************)
(* The popup (popup.js)                                                    *)
(***************************************************************************)

\* The toggle's click handler (popup.js:42-63).
PopupToggleUpTo(limit) ==
  /\ Len(messages) < MaxMessages
  /\ toggles < limit
  /\ toggles' = toggles + 1
  /\ LET currentState ==
           IF storedEnabled = "unset" THEN DEFAULT_ENABLED ELSE storedEnabled = "true"
         newState == ~currentState
     IN /\ storedEnabled' = IF newState THEN "true" ELSE "false"
        /\ messages' = Append(messages, newState)
  /\ UNCHANGED <<now, contextValid, store, initPc, observerOn, extensionEnabled,
                 tweetCache, flushTimeout, tweets, requestQueue, inFlight,
                 isProcessingQueue, lastRequestTime, activeRequests,
                 processingTweets, timers, callLog,
                 last, hostPage, expiresAt>>

PopupToggle == PopupToggleUpTo(MaxToggles)

\* The clear-cache click handler (popup.js:66-71).
PopupClearCache ==
  /\ store.set
  /\ store' = NoStore
  /\ UNCHANGED <<now, contextValid, storedEnabled, messages, toggles, initPc, observerOn,
                 extensionEnabled, tweetCache, flushTimeout, tweets, requestQueue,
                 inFlight, isProcessingQueue, lastRequestTime, activeRequests,
                 processingTweets, timers, callLog,
                 last, hostPage, expiresAt>>

(***************************************************************************)
(* The content script's handlers                                           *)
(***************************************************************************)

\* A request whose captured button was removed from the page keeps a
\* reference to a detached node.
Detach(r) == [r EXCEPT !.btn = IF @ = "live" THEN "gone" ELSE @]
DetachAll(rs) == [i \in 1..Len(rs) |-> Detach(rs[i])]

\* The onMessage listener (content.js:41-56).
ReceiveToggle ==
  /\ messages # <<>>
  /\ messages' = Tail(messages)
  /\ toggles' = toggles
  /\ extensionEnabled' = Head(messages)
  /\ IF Head(messages)
       THEN /\ timers' = AddTimer(timers, "processTweets", now + ToggleScanDelay)
            /\ UNCHANGED <<tweets, requestQueue, inFlight>>
       ELSE /\ tweets' = [e \in Tweets |-> removeAllMarkups(tweets[e])]
            /\ requestQueue' = DetachAll(requestQueue)
            /\ inFlight' = DetachAll(inFlight)
            /\ UNCHANGED timers
  /\ UNCHANGED <<now, contextValid, storedEnabled, store, initPc, observerOn,
                 tweetCache, flushTimeout, isProcessingQueue, lastRequestTime,
                 activeRequests, processingTweets, callLog,
                 last, hostPage, expiresAt>>

\* processTweets (content.js:408-427), run from a timer; ts are the timers
\* still pending.
processTweets(ts) ==
  LET scanned == [e \in Tweets |-> addCheckButton(tweets[e])]
  IN IF extensionEnabled
       THEN /\ tweets' = scanned
            /\ timers' = ObserverScan(ts, scanned # tweets)
       ELSE /\ timers' = ts
            /\ UNCHANGED tweets

\* A processTweet that does not consult processingTweets.
AlreadyProcessingNever(tweetId) == FALSE

\* History: how many requests have been pushed onto requestQueue so far.
\* Every one of them is still in the queue or has been dispatched.
Enqueued == Len(requestQueue) + Len(callLog)

\* content.js:368, processingTweets.has(tweetId).
AlreadyProcessing(tweetId) == tweetId \in processingTweets

\* A lookup that finds nothing.
CacheHasNever(cache, tweetId) == FALSE

\* content.js:360, tweetCache.has(tweetId).
CacheHas(cache, tweetId) == tweetId \in DOMAIN cache

\* processTweet (content.js:337-405) for tweet article e, up to the point
\* where it returns or awaits its request's completion.
processTweet(e) ==
  LET t == tweets[e]
      tweetText == extractTweetText(t)
      tweetId == generateTweetId(tweetText)
      request == [el |-> e, text |-> tweetText, id |-> tweetId,
                  btn |-> IF t.button.present THEN "live" ELSE "none",
                  seq |-> Enqueued + 1, enq |-> now]
      Leave(outcome) ==
        /\ Did("processTweet", e, outcome)
        /\ UNCHANGED <<tweets, processingTweets, requestQueue, inFlight,
                       isProcessingQueue, lastRequestTime, activeRequests,
                       timers, callLog>>
  IN IF ~extensionEnabled THEN Leave("disabled")
     ELSE IF t.factChecked # "none" THEN Leave("already")
     ELSE IF ~HasText(t) \/ TooShort(tweetText) THEN Leave("short")
     ELSE IF CacheHas(tweetCache, tweetId)
       THEN /\ tweets' = [tweets EXCEPT ![e] = applyMarkup(t, tweetCache[tweetId])]
            /\ timers' = ObserverScan(timers, ~RenderThrows(t, tweetCache[tweetId]))
            /\ Did("processTweet", e,
                   IF RenderThrows(t, tweetCache[tweetId]) THEN "threw" ELSE "cached")
            /\ UNCHANGED <<processingTweets, requestQueue, inFlight,
                           isProcessingQueue, lastRequestTime, activeRequests,
                           callLog>>
     ELSE IF AlreadyProcessing(tweetId) THEN Leave("processing")
     ELSE /\ processingTweets' = processingTweets \cup {tweetId}
          /\ tweets' = [tweets EXCEPT
               ![e].factChecked = "loading",
               ![e].button = IF @.present THEN [@ EXCEPT !.disabled = TRUE] ELSE @]
          /\ SetSched(processRequestQueue(
               [Sched EXCEPT !.queue = Append(@, request)]))
          /\ Did("processTweet", e, "queued")

\* The button's click handler (content.js:499-517).  Only a button that is
\* shown and not disabled can be clicked.
Click(e) ==
  /\ tweets[e].button.present
  /\ ~tweets[e].button.disabled
  /\ ~tweets[e].button.hidden
  /\ IF tweets[e].factChecked \in {"loading", "true"}
       THEN /\ Did("click", e, "ignored")
            /\ UNCHANGED <<tweets, processingTweets, requestQueue, inFlight,
                           isProcessingQueue, lastRequestTime, activeRequests,
                           timers, callLog>>
       ELSE processTweet(e)
  /\ UNCHANGED <<now, contextValid, storedEnabled, store, messages, toggles, initPc,
                 observerOn, extensionEnabled, tweetCache, flushTimeout,
                 hostPage, expiresAt>>

\* What checkTweet can return (content.js:154-208): a verdict, or null after
\* a network error, a non-2xx status or an unparsable body.
Responses ==
  {[ok |-> TRUE, result |-> v] : v \in Verdicts}
    \cup {[ok |-> FALSE, result |-> VerdictOk]}

\* The failure cleanup (content.js:303-309 and 316-322).
resetLoading(t) ==
  [t EXCEPT !.factChecked = "none",
            !.button = IF @.present THEN NewButton ELSE @]

\* The finally of processTweet (content.js:396-404) on the tweet article:
\* the button captured before the request was queued is hidden.
hideButton(t, request) ==
  IF request.btn = "live" THEN [t EXCEPT !.button.hidden = TRUE] ELSE t

\* A completion that leaves the identity in processingTweets.
cleanUpNothing(processing, tweetId) == processing

\* content.js:397, processingTweets.delete(tweetId).
cleanUp(processing, tweetId) == processing \ {tweetId}

\* A saveCacheEntry that takes no flush for pending.
FlushPendingNever(timeout) == FALSE

\* content.js:117, saveCache.timeout is set.
FlushPending(timeout) == timeout # "null"

\* A completion that does not call the dispatcher again.
RescheduleNever(ts) == ts

\* content.js:328, setTimeout(processRequestQueue, 200).
Reschedule(ts) == AddTimer(ts, "processRequestQueue", now + SettleDelay)

\* checkTweet settles for the i-th request in flight, with response resp:
\* the then/catch/finally chain of processRequestQueue (content.js:293-329)
\* followed by the finally of processTweet (content.js:396-404).  When
\* applyMarkup throws in the then-branch, the entry is already in the cache
\* (content.js:298) and the catch-branch runs the failure cleanup.
Complete(i, resp) ==
  LET request == inFlight[i]
      t == tweets[request.el]
      threw == resp.ok /\ RenderThrows(t, resp.result)
      rendered == IF resp.ok /\ ~threw THEN applyMarkup(t, resp.result)
                  ELSE IF threw THEN resetLoading(applyMarkup(t, resp.result))
                  ELSE resetLoading(t)
      armFlush == resp.ok /\ EntrySaved /\ ~FlushPending(flushTimeout)
      flushed == IF armFlush THEN AddTimer(timers, "flush", now + FlushDelay)
                 ELSE timers
  IN /\ tweetCache' = IF resp.ok
                        THEN saveCacheEntry(tweetCache, request.id, resp.result)
                        ELSE tweetCache
     /\ expiresAt' = IF resp.ok /\ EntrySaved
                        THEN Put(expiresAt, request.id, now + CacheExpiryMs)
                        ELSE expiresAt
     /\ flushTimeout' = IF armFlush THEN "armed" ELSE flushTimeout
     /\ tweets' = [tweets EXCEPT ![request.el] = hideButton(rendered, request)]
     /\ processingTweets' = cleanUp(processingTweets, request.id)
     /\ inFlight' = SubSeq(inFlight, 1, i - 1) \o SubSeq(inFlight, i + 1, Len(inFlight))
     /\ activeRequests' = activeRequests - 1
     /\ timers' = Reschedule(ObserverScan(flushed, resp.ok /\ t.textEl /\ ~threw))
     /\ Did("complete", request.el,
            IF threw THEN "threw" ELSE IF resp.ok THEN "result" ELSE "null")
     /\ UNCHANGED <<now, contextValid, storedEnabled, store, messages, toggles, initPc,
                    observerOn, extensionEnabled, requestQueue,
                    isProcessingQueue, lastRequestTime, callLog, hostPage>>

\* The timer at the head of the pending timers is due and runs.
FireTimer ==
  /\ timers # <<>>
  /\ Head(timers).due <= now
  /\ LET fn == Head(timers).fn
         rest == Tail(timers)
     IN CASE fn \in ScanTimers ->
               /\ processTweets(rest)
               /\ UNCHANGED <<store, flushTimeout, requestQueue, inFlight,
                              isProcessingQueue, lastRequestTime, activeRequests,
                              callLog>>
          [] fn = "processRequestQueue" ->
               /\ SetSched(processRequestQueue([Sched EXCEPT !.timers = rest]))
               /\ UNCHANGED <<store, flushTimeout, tweets>>
          [] fn = "resume" ->
               /\ SetSched(Resume([Sched EXCEPT !.timers = rest]))
               /\ UNCHANGED <<store, flushTimeout, tweets>>
          [] fn = "flush" ->
               \* content.js:118-121: await saveCache(), then timeout = null.
               /\ store' = saveCache
               /\ flushTimeout' = IF contextValid THEN "saving" ELSE "null"
               /\ timers' = rest
               /\ UNCHANGED <<tweets, requestQueue, inFlight, isProcessingQueue,
                              lastRequestTime, activeRequests, callLog>>
          [] fn = "saveCache" ->
               \* content.js:616, setInterval(saveCache, 30000).
               /\ store' = saveCache
               /\ timers' = AddTimer(rest, "saveCache", now + SaveInterval)
               /\ UNCHANGED <<flushTimeout, tweets, requestQueue, inFlight,
                              isProcessingQueue, lastRequestTime, activeRequests,
                              callLog>>
  /\ UNCHANGED <<now, contextValid, storedEnabled, messages, toggles, initPc, observerOn,
                 extensionEnabled, tweetCache, processingTweets,
                 last, hostPage, expiresAt>>

\* The storage write of the flush returns: saveCache.timeout = null
\* (content.js:120).
FlushDone ==
  /\ flushTimeout = "saving"
  /\ flushTimeout' = "null"
  /\ UNCHANGED <<now, contextValid, storedEnabled, store, messages, toggles, initPc,
                 observerOn, extensionEnabled, tweetCache, tweets, requestQueue,
                 inFlight, isProcessingQueue, lastRequestTime, activeRequests,
                 processingTweets, timers, callLog,
                 last, hostPage, expiresAt>>

(***************************************************************************)
(* The environment                                                         *)
(***************************************************************************)

\* The host page adds nodes (infinite scroll): the observer's callback runs
\* (content.js:554-568).
HostMutation ==
  /\ observerOn
  /\ extensionEnabled
  /\ Cardinality({i \in 1..Len(timers) : timers[i].fn \in ScanTimers}) < MaxHostScans
  /\ timers' = ObserverScan(timers, TRUE)
  /\ UNCHANGED <<now, contextValid, storedEnabled, store, messages, toggles, initPc,
                 observerOn, extensionEnabled, tweetCache, flushTimeout, tweets,
                 requestQueue, inFlight, isProcessingQueue, lastRequestTime,
                 activeRequests, processingTweets, callLog,
                 last, hostPage, expiresAt>>

\* The extension is reloaded or removed while the page stays open:
\* chrome.runtime.id becomes undefined.
InvalidateContext ==
  /\ contextValid
  /\ contextValid' = FALSE
  /\ UNCHANGED <<now, storedEnabled, store, messages, toggles, initPc, observerOn,
                 extensionEnabled, tweetCache, flushTimeout, tweets, requestQueue,
                 inFlight, isProcessingQueue, lastRequestTime, activeRequests,
                 processingTweets, timers, callLog,
                 last, hostPage, expiresAt>>

\* Time passes: one tick, the period of the periodic save, or the lifetime
\* of a cache entry.  Timers and messages are served without delay: time
\* does not pass while a timer is due or a message is waiting.
Pass(d, horizon) ==
  /\ messages = <<>>
  /\ \A i \in 1..Len(timers) : timers[i].due > now
  /\ \/ d = TickStep /\ ((now - StartTime) % SaveInterval) + TickStep <= horizon
     \/ d = SaveInterval /\ (now - StartTime) % CacheExpiryMs < SaveInterval
     \/ d = CacheExpiryMs /\ now - StartTime < CacheExpiryMs
  /\ now' = now + d
  /\ UNCHANGED <<contextValid, storedEnabled, store, messages, toggles, initPc, observerOn,
                 extensionEnabled, tweetCache, flushTimeout, tweets, requestQueue,
                 inFlight, isProcessingQueue, lastRequestTime, activeRequests,
                 processingTweets, timers, callLog,
                 last, hostPage, expiresAt>>

Elapse(d) == Pass(d, MaxElapsed)

\* Time passes in a session whose storage reads return without delay: init
\* has run to its end.
Advance(d) == initPc = "done" /\ Elapse(d)

\* The page and its user: toggles, clicks, scrolling, and time in ticks.
Next ==
  \/ InitLoadEnabled
  \/ InitLoadCache
  \/ PopupToggle
  \/ ReceiveToggle
  \/ \E e \in Tweets : Click(e)
  \/ \E i \in 1..Len(inFlight) : \E resp \in Responses : Complete(i, resp)
  \/ FireTimer
  \/ HostMutation
  \/ Advance(TickStep)

Spec == Init /\ [][Next]_vars

(***************************************************************************)
(* The cache over long periods                                             *)
(***************************************************************************)

\* An enabled session that is left open: the page is clicked, the popup's
\* clear-cache button is used, the extension may be reloaded, and time
\* passes by the period of the periodic save and by the lifetime of a cache
\* entry.
InitCache == Init /\ storedEnabled = "unset"

NextCache ==
  \/ InitLoadEnabled
  \/ InitLoadCache
  \/ PopupClearCache
  \/ \E e \in Tweets : Click(e)
  \/ \E i \in 1..Len(inFlight) : \E resp \in Responses : Complete(i, resp)
  \/ FireTimer
  \/ FlushDone
  \/ InvalidateContext
  \/ \E d \in {SaveInterval, CacheExpiryMs} : Advance(d)

SpecCache == InitCache /\ [][NextCache]_vars

(***************************************************************************)
(* A session whose storage reads are slow                                  *)
(***************************************************************************)

\* The session starts disabled with a snapshot in storage, and the popup's
\* toggle is used while init still awaits loadEnabledState or loadCache:
\* time passes and timers fire before init has run to its end.
InitSlowStorage ==
  /\ Init
  /\ storedEnabled = "false"
  /\ store = StoredSnapshot
  /\ hostPage[1] = HostTweet(TextPlain)

NextSlowStorage ==
  \/ InitLoadEnabled
  \/ InitLoadCache
  \/ PopupToggleUpTo(MaxTogglesSlow)
  \/ ReceiveToggle
  \/ \E e \in Tweets : Click(e)
  \/ \E i \in 1..Len(inFlight) : \E resp \in Responses : Complete(i, resp)
  \/ FireTimer
  \/ Elapse(TickStep)

SpecSlowStorage == InitSlowStorage /\ [][NextSlowStorage]_vars

(***************************************************************************)
(* The request queue over a longer run                                     *)
(***************************************************************************)

\* An enabled session on a page with two tweets of different texts, followed
\* long enough for a request to be dispatched after two requests have
\* waited in the queue together.
InitQueue ==
  /\ Init
  /\ storedEnabled = "unset"
  /\ store = NoStore
  /\ hostPage[1] = HostTweet(TextIssue)

NextQueue ==
  \/ InitLoadEnabled
  \/ InitLoadCache
  \/ PopupToggle
  \/ ReceiveToggle
  \/ \E e \in Tweets : Click(e)
  \/ \E i \in 1..Len(inFlight) : \E resp \in Responses : Complete(i, resp)
  \/ FireTimer
  \/ (initPc = "done" /\ Pass(TickStep, MaxElapsedQueue))

SpecQueue == InitQueue /\ [][NextQueue]_vars

(***************************************************************************)
(* The request queue until it has drained                                  *)
(***************************************************************************)

\* Time passes by one tick.  While requests wait in the queue for a timer
\* and no call is in flight, time goes on for as long as the queue needs to
\* drain, which is well before the periodic save is due.
TickLive ==
  /\ initPc = "done"
  /\ Pass(TickStep,
          IF requestQueue # <<>> /\ inFlight = <<>>
            THEN SaveInterval - TickStep ELSE MaxElapsedIdle)

\* checkTweet settles for some request in flight.
Settle == \E i \in 1..Len(inFlight) : \E resp \in Responses : Complete(i, resp)

NextLive ==
  \/ InitLoadEnabled
  \/ InitLoadCache
  \/ PopupToggle
  \/ ReceiveToggle
  \/ \E e \in Tweets : Click(e)
  \/ Settle
  \/ FireTimer
  \/ TickLive

\* The timer at the head of the pending timers is due: FireTimer can run.
TimerDue == timers # <<>> /\ Head(timers).due <= now

\* The event loop runs every handler that is ready: init's awaits return,
\* time passes, every call to the service settles, messages are delivered
\* and timers that are due fire.  The last two are weak fairness of
\* ReceiveToggle and of FireTimer, written with the handlers' guards.
Fairness ==
  /\ WF_vars(InitLoadEnabled)
  /\ WF_vars(InitLoadCache)
  /\ WF_vars(TickLive)
  /\ WF_vars(Settle)
  /\ ([]<>(messages = <<>>) \/ []<><<ReceiveToggle>>_vars)
  /\ ([]<>(~TimerDue) \/ []<><<FireTimer>>_vars)

SpecLive == InitQueue /\ [][NextLive]_vars /\ Fairness

(***************************************************************************)
(* The renderer on its own                                                 *)
(***************************************************************************)

\* How often applyMarkup has run on tweet article t since it was last
\* cleaned: every run leaves one verified badge or one warning badge.
Renders(t) == CountOcc(t.html, VerifiedOpen) + t.warn

\* applyMarkup runs on tweet article e with verdict v.
Render(e, v) ==
  /\ Renders(tweets[e]) < MaxRenders
  /\ tweets' = [tweets EXCEPT ![e] = applyMarkup(@, v)]
  /\ UNCHANGED <<now, contextValid, storedEnabled, store, messages, toggles, initPc,
                 observerOn, extensionEnabled, tweetCache, flushTimeout,
                 requestQueue, inFlight, isProcessingQueue, lastRequestTime,
                 activeRequests, processingTweets, timers, callLog,
                 last, hostPage, expiresAt>>

\* removeAllMarkups runs on the page.
Unrender ==
  /\ tweets' = [e \in Tweets |-> removeAllMarkups(tweets[e])]
  /\ tweets' # tweets
  /\ UNCHANGED <<now, contextValid, storedEnabled, store, messages, toggles, initPc,
                 observerOn, extensionEnabled, tweetCache, flushTimeout,
                 requestQueue, inFlight, isProcessingQueue, lastRequestTime,
                 activeRequests, processingTweets, timers, callLog,
                 last, hostPage, expiresAt>>

InitRender == Init /\ storedEnabled = "unset" /\ store = NoStore

NextRender ==
  \/ \E e \in Tweets : \E v \in Verdicts : Render(e, v)
  \/ Unrender

SpecRender == InitRender /\ [][NextRender]_vars

\* The renderer over verdicts whose lists differ in length, whose phrases
\* are absent from the text, or whose phrases are words of the markup: every
\* tweet article is rendered up to MaxRenders times.
InitMarkup == InitRender

NextMarkup ==
  \E e \in Tweets : \E v \in MarkupVerdicts : Render(e, v)

SpecMarkup == InitMarkup /\ [][NextMarkup]_vars

(***************************************************************************)
(* A service that answers with a wrong-shaped verdict                      *)
(***************************************************************************)

\* What checkTweet can return when the body of a 200 response is any JSON
\* object (content.js:187-194).
ResponsesAnyShape ==
  Responses \cup {[ok |-> TRUE, result |-> VerdictMalformed]}

\* An enabled session without a stored snapshot.
InitAnyShape == Init /\ storedEnabled = "unset" /\ store = NoStore

NextAnyShape ==
  \/ InitLoadEnabled
  \/ InitLoadCache
  \/ \E e \in Tweets : Click(e)
  \/ \E i \in 1..Len(inFlight) : \E resp \in ResponsesAnyShape : Complete(i, resp)
  \/ FireTimer
  \/ Advance(TickStep)

SpecAnyShape == InitAnyShape /\ [][NextAnyShape]_vars

(***************************************************************************)
(* A host page that re-renders its tweets                                  *)
(***************************************************************************)

\* The host page re-renders tweet article e without its text element (the
\* post was deleted or withheld, or the list reuses the article for a post
\* that has media only).  The article node and its dataset stay.  No node
\* is added, so the observer's callback arms no scan (content.js:558-563).
HostDropText(e) ==
  /\ tweets[e].textEl
  /\ tweets' = [tweets EXCEPT ![e].textEl = FALSE, ![e].html = <<>>]
  /\ hostPage' = [hostPage EXCEPT ![e] = BareTweet]
  /\ UNCHANGED <<now, contextValid, storedEnabled, store, messages, toggles, initPc,
                 observerOn, extensionEnabled, tweetCache, flushTimeout,
                 requestQueue, inFlight, isProcessingQueue, lastRequestTime,
                 activeRequests, processingTweets, timers, callLog,
                 last, expiresAt>>

\* An enabled session on a page whose tweets can lose their text element
\* while their requests are pending.
NextVirtual ==
  \/ InitLoadEnabled
  \/ InitLoadCache
  \/ \E e \in Tweets : Click(e)
  \/ Settle
  \/ FireTimer
  \/ \E e \in Tweets : HostDropText(e)
  \/ Advance(TickStep)

SpecVirtual == InitAnyShape /\ [][NextVirtual]_vars

(***************************************************************************)
(* The flush of the cache in a session that started disabled               *)
(***************************************************************************)

\* The session starts disabled with nothing in storage, on a page with two
\* tweets of different texts: init returns before the periodic save is
\* started (content.js:586-589, :616), and the popup's toggle enables the
\* session later.
InitFlush ==
  /\ Init
  /\ storedEnabled = "false"
  /\ store = NoStore
  /\ hostPage[1] = HostTweet(TextIssue)

\* tweetCache holds an entry that the snapshot in storage does not hold.
Unsaved == \E id \in DOMAIN tweetCache : ~(store.set /\ id \in DOMAIN store.obj)

\* Time passes by one tick.  While an entry of the cache is not in storage
\* and a timer is pending, time goes on until the timer is due.
TickFlush ==
  /\ initPc = "done"
  /\ Pass(TickStep,
          IF Unsaved /\ timers # <<>> THEN SaveInterval - TickStep ELSE MaxElapsedIdle)

\* checkTweet returns a verdict for some request in flight: the service is
\* up, so that every request ends in a put.
SettleOk ==
  \E i \in 1..Len(inFlight) :
    \E resp \in {r \in Responses : r.ok} : Complete(i, resp)

NextFlush ==
  \/ InitLoadEnabled
  \/ InitLoadCache
  \/ PopupToggle
  \/ ReceiveToggle
  \/ \E e \in Tweets : Click(e)
  \/ SettleOk
  \/ FireTimer
  \/ FlushDone
  \/ TickFlush

\* The event loop runs every handler that is ready, the storage write of a
\* flush included; storage stays available.
FairnessFlush ==
  /\ WF_vars(InitLoadEnabled)
  /\ WF_vars(InitLoadCache)
  /\ WF_vars(TickFlush)
  /\ WF_vars(SettleOk)
  /\ WF_vars(FlushDone)
  /\ ([]<>(messages = <<>>) \/ []<><<ReceiveToggle>>_vars)
  /\ ([]<>(~TimerDue) \/ []<><<FireTimer>>_vars)

SpecFlush == InitFlush /\ [][NextFlush]_vars /\ FairnessFlush

(***************************************************************************)
(* A storage read that is answered before its reply is delivered           *)
(***************************************************************************)

\* init() between the moment storage has answered loadEnabledState's get
\* and the moment the awaited promise resolves, by the value of the answer.
ReadUnset == "read:unset"
ReadTrue == "read:true"
ReadFalse == "read:false"
EnabledReads == {ReadUnset, ReadTrue, ReadFalse}

\* chrome.storage.local answers the get of loadEnabledState (content.js:31)
\* with the value it holds at that moment.
ServeEnabledRead ==
  /\ initPc = "loadEnabled"
  /\ initPc' = IF ~contextValid \/ storedEnabled = "unset" THEN ReadUnset
               ELSE IF storedEnabled = "true" THEN ReadTrue ELSE ReadFalse
  /\ UNCHANGED <<now, contextValid, storedEnabled, store, messages, toggles, observerOn,
                 extensionEnabled, tweetCache, flushTimeout, tweets, requestQueue,
                 inFlight, isProcessingQueue, lastRequestTime, activeRequests,
                 processingTweets, timers, callLog,
                 last, hostPage, expiresAt>>

\* The await of content.js:31 resumes with the answer, and content.js:32
\* assigns it to extensionEnabled.
ReturnEnabledRead ==
  /\ initPc \in EnabledReads
  /\ extensionEnabled' = IF initPc = ReadUnset THEN DEFAULT_ENABLED ELSE initPc = ReadTrue
  /\ initPc' = "loadCache"
  /\ UNCHANGED <<now, contextValid, storedEnabled, store, messages, toggles, observerOn,
                 tweetCache, flushTimeout, tweets, requestQueue, inFlight,
                 isProcessingQueue, lastRequestTime, activeRequests,
                 processingTweets, timers, callLog,
                 last, hostPage, expiresAt>>

\* A session with nothing cached in storage, whose popup is used while
\* init runs.
InitStaleRead == Init /\ store = NoStore

NextStaleRead ==
  \/ ServeEnabledRead
  \/ ReturnEnabledRead
  \/ InitLoadCache
  \/ PopupToggle
  \/ ReceiveToggle
  \/ \E e \in Tweets : Click(e)
  \/ Settle
  \/ FireTimer
  \/ Advance(TickStep)

SpecStaleRead == InitStaleRead /\ [][NextStaleRead]_vars

(***************************************************************************)
(* Properties                                                              *)
(***************************************************************************)

\* A text is absent or shorter than 50 characters.
IsShort(text) == Len(text) < MinTextLength

\* The requests that are queued or in flight.
Pending == requestQueue \o inFlight

\* The identity processTweet computes for tweet article e.
IdOf(e) == generateTweetId(extractTweetText(tweets[e]))

\* The markers a tweet article shows, by class.
Markers(t) ==
  [verified |-> CountOcc(t.html, VerifiedOpen),
   incorrect |-> CountOcc(t.html, IncorrectOpen),
   correction |-> CountOcc(t.html, CorrectionOpen),
   warning |-> t.warn]

NoMarkers ==
  [verified |-> 0, incorrect |-> 0, correction |-> 0, warning |-> 0]

\* C1: for every identity at most one request is queued or in flight.
C1_OneRequestPerIdentity ==
  \A i, j \in 1..Len(Pending) : Pending[i].id = Pending[j].id => i = j

\* processTweet has just turned down tweet article last.el because another
\* article's request for the same identity is pending.
C1_Witness ==
  /\ last.op = "processTweet"
  /\ last.outcome = "processing"
  /\ \E i \in 1..Len(Pending) :
       Pending[i].el # last.el /\ Pending[i].id = IdOf(last.el)

\* C2: at most MAX_CONCURRENT_REQUESTS verification calls are in flight.
C2_ConcurrencyBound ==
  /\ Len(inFlight) <= MAX_CONCURRENT_REQUESTS
  /\ activeRequests = Len(inFlight)

\* A call is in flight while another request waits in the queue and the
\* dispatcher has been started again.
C2_Witness ==
  /\ Len(inFlight) = MAX_CONCURRENT_REQUESTS
  /\ requestQueue # <<>>
  /\ Len(callLog) >= 1

\* C3: successive dispatches start at least MIN_REQUEST_INTERVAL apart.
C3_MinSpacing ==
  \A i \in 1..(Len(callLog) - 1) :
    callLog[i + 1].at - callLog[i].at >= MIN_REQUEST_INTERVAL

\* Two calls have been dispatched, the second one after the rate-limit wait.
C3_Witness ==
  /\ Len(callLog) >= 2
  /\ callLog[2].at - callLog[1].at = MIN_REQUEST_INTERVAL

\* C4: no request is queued and no call is issued for a text that is absent
\* or shorter than 50 characters.
C4_NoShortRequest ==
  /\ \A i \in 1..Len(Pending) : ~IsShort(Pending[i].text)
  /\ \A i \in 1..Len(callLog) : callLog[i].len >= MinTextLength
  /\ \A e \in Tweets :
       (~HasText(hostPage[e]) \/ IsShort(extractTweetText(hostPage[e])))
         => /\ \A i \in 1..Len(Pending) : Pending[i].el # e
            /\ ~tweets[e].button.present

\* A scan has given the long tweet its button and left the short or
\* text-less first tweet without one.
C4_Witness ==
  /\ ~HasText(hostPage[1]) \/ IsShort(extractTweetText(hostPage[1]))
  /\ \E e \in Tweets : tweets[e].button.present
  /\ callLog # <<>>

\* C5: when a verification call fails, the tweet article carries no marker
\* and no flag, the cache is not written, and the article's check button,
\* if it is still on the page, can be clicked again.
C5_FailureRecheckable ==
  [][\A i \in 1..Len(inFlight) :
       Complete(i, [ok |-> FALSE, result |-> VerdictOk])
         => LET e == inFlight[i].el
            IN /\ tweets'[e].factChecked = "none"
               /\ Markers(tweets'[e]) = NoMarkers
               /\ tweetCache' = tweetCache
               /\ tweets[e].button.present
                    => /\ tweets'[e].button.present
                       /\ ~tweets'[e].button.disabled
                       /\ ~tweets'[e].button.hidden]_vars

\* C6: after saveCacheEntry(id, v) the cache holds v for id.
C6_PutThenLookup ==
  [][\A i \in 1..Len(inFlight) : \A v \in Verdicts :
       Complete(i, [ok |-> TRUE, result |-> v])
         => /\ inFlight[i].id \in DOMAIN tweetCache'
            /\ tweetCache'[inFlight[i].id] = v]_vars

\* C7: an entry whose lifetime has ended is absent from the cache.
C7_ExpiredIsAbsent ==
  \A id \in DOMAIN tweetCache : now < expiresAt[id]

\* C8: after the popup's clear-cache action neither the cache in memory nor
\* storage holds an entry.
C8_ClearDropsAll ==
  [][PopupClearCache => (tweetCache' = EmptyMap /\ ~store'.set)]_vars

\* C9: applyMarkup followed by removeAllMarkups leaves the tweet article
\* with its original text and without marker or flag, and removeAllMarkups
\* leaves an article without markers as it is.
C9_UnrenderInvertsRender ==
  [][Unrender =>
       \A e \in Tweets :
         /\ (\E v \in Verdicts : tweets[e] = applyMarkup(hostPage[e], v))
              => /\ TextContent(tweets'[e].html) = TextContent(hostPage[e].html)
                 /\ Markers(tweets'[e]) = NoMarkers
                 /\ tweets'[e].factChecked = "none"
         /\ (Markers(tweets[e]) = NoMarkers /\ tweets[e].factChecked = "none")
              => tweets'[e] = tweets[e]]_vars

\* C10: applyMarkup run a second time with the same verdict on the same
\* tweet article leaves the markers of the first run.
C10_RenderIdempotent ==
  [][\A e \in Tweets : \A v \in Verdicts :
       (Render(e, v) /\ tweets[e] = applyMarkup(hostPage[e], v))
         => Markers(tweets'[e]) = Markers(tweets[e])]_vars

\* C11: no tweet article is annotated twice: each carries at most one
\* verified badge and at most one warning badge, and none without the
\* checked flag.
C11_NoDoubleAnnotation ==
  \A e \in Tweets :
    /\ Markers(tweets[e]).verified <= 1
    /\ Markers(tweets[e]).warning <= 1
    /\ Markers(tweets[e]) # NoMarkers => tweets[e].factChecked = "true"

\* C12: while the session is disabled no tweet article carries a marker, a
\* badge or a check button.
C12_DisabledPageIsClean ==
  ~extensionEnabled =>
    \A e \in Tweets :
      /\ Markers(tweets[e]) = NoMarkers
      /\ ~tweets[e].button.present

\* C13: while the session is disabled no check button is added, no request
\* is enqueued and no verification call is dispatched.
C13_DisabledHaltsScheduling ==
  [][(~extensionEnabled /\ ~extensionEnabled') =>
       /\ callLog' = callLog
       /\ Len(requestQueue') <= Len(requestQueue)
       /\ \A e \in Tweets :
            tweets'[e].button.present => tweets[e].button.present]_vars

\* C14: when a dispatched request completes, either the verdict is written
\* to the cache and rendered, or the failure cleanup leaves the tweet
\* article without annotation, checkable, and the cache as it was; in both
\* cases the identity leaves processingTweets.
C14_ExactlyOneOutcome ==
  [][\A i \in 1..Len(inFlight) : \A resp \in Responses :
       Complete(i, resp)
         => LET request == inFlight[i]
                e == request.el
                written == /\ request.id \in DOMAIN tweetCache'
                           /\ tweetCache'[request.id] = resp.result
                rendered == tweets'[e].factChecked = "true"
                cleaned == /\ tweets'[e].factChecked = "none"
                           /\ Markers(tweets'[e]) = NoMarkers
                           /\ tweets[e].button.present
                                => /\ tweets'[e].button.present
                                   /\ ~tweets'[e].button.disabled
                                   /\ ~tweets'[e].button.hidden
            IN /\ IF resp.ok
                    THEN written /\ rendered
                    ELSE cleaned /\ tweetCache' = tweetCache
               /\ request.id \notin processingTweets']_vars

\* C15: processingTweets is the set of identities that have a request in
\* the queue or in flight.
C15_ProcessingSetIsPending ==
  processingTweets = {Pending[i].id : i \in 1..Len(Pending)}

\* A request has just completed while another one is still pending: the
\* first identity has left processingTweets, the second is in it.
C15_Witness ==
  /\ last.op = "complete"
  /\ Len(Pending) = 1
  /\ processingTweets = {Pending[1].id}
  /\ Pending[1].el # last.el

\* The tickets of the requests in sequence rs.
Tickets(rs) == {rs[i].seq : i \in 1..Len(rs)}

\* C16: requests are dispatched in the order they were enqueued: the calls
\* were issued in ticket order, and no request still in the queue was
\* enqueued before one that has been dispatched.
C16_Fifo ==
  /\ \A i, j \in 1..Len(callLog) : i < j => callLog[i].seq < callLog[j].seq
  /\ \A i \in 1..Len(callLog) : \A j \in 1..Len(requestQueue) :
       callLog[i].seq < requestQueue[j].seq

\* The last call was dispatched while a request enqueued after it, and
\* before the dispatch, was waiting in the queue.
C16_Witness ==
  /\ callLog # <<>>
  /\ \E j \in 1..Len(requestQueue) :
       /\ requestQueue[j].enq < callLog[Len(callLog)].at
       /\ callLog[Len(callLog)].seq < requestQueue[j].seq

\* No two calls carry the same ticket, a request in the queue has not been
\* dispatched, and a request in flight has been dispatched.
OneCallPerTicket ==
  /\ \A i, j \in 1..Len(callLog) : callLog[i].seq = callLog[j].seq => i = j
  /\ \A i, j \in 1..Len(Pending) : Pending[i].seq = Pending[j].seq => i = j
  /\ Tickets(requestQueue) \cap Tickets(callLog) = {}
  /\ Tickets(inFlight) \subseteq Tickets(callLog)

\* C17: every request is consumed once and never retried: no two calls
\* carry the same ticket, a request in the queue has not been dispatched, a
\* request in flight has been dispatched once, and a completion takes its
\* request out of the pending requests without enqueueing or dispatching
\* anything.
C17_ConsumedOnce ==
  /\ []OneCallPerTicket
  /\ [][\A i \in 1..Len(inFlight) : \A resp \in Responses :
          Complete(i, resp)
            => /\ inFlight[i].seq \notin Tickets(requestQueue' \o inFlight')
               /\ requestQueue' = requestQueue
               /\ callLog' = callLog]_vars

\* A call failed, and the same identity was called again after a new click
\* had enqueued it.
C17_Witness ==
  /\ last.op = "complete"
  /\ \E i, j \in 1..Len(callLog) :
       i < j /\ callLog[i].id = callLog[j].id

\* C18: a snapshot written to storage holds every entry with the expiry
\* its last put gave it, and holds no entry that is past that expiry.
C18_PersistKeepsExpiry ==
  [][(store' # store /\ store'.set) =>
       \A id \in DOMAIN store'.obj :
         /\ store'.obj[id].expiry = expiresAt[id]
         /\ now < expiresAt[id]]_vars

\* C19: a verdict received while storage is unavailable is still stored in
\* the cache in memory.
C19_MemoryCacheSurvives ==
  [][\A i \in 1..Len(inFlight) : \A v \in Verdicts :
       (~contextValid /\ Complete(i, [ok |-> TRUE, result |-> v]))
         => /\ inFlight[i].id \in DOMAIN tweetCache'
            /\ tweetCache'[inFlight[i].id] = v]_vars

\* The flush timers that are pending.
FlushTimers == {i \in 1..Len(timers) : timers[i].fn = "flush"}

\* At most one flush timer is pending, and it is pending exactly while
\* saveCache.timeout is armed.
OneFlushTimer ==
  /\ Cardinality(FlushTimers) <= 1
  /\ flushTimeout = "armed" <=> FlushTimers # {}

\* C20: cache writes are coalesced: at most one flush timer is pending, a
\* put writes nothing to storage itself, and a put made while a flush is
\* pending arms no further timer.
C20_Coalesced ==
  /\ []OneFlushTimer
  /\ [][\A i \in 1..Len(inFlight) : \A resp \in Responses :
          Complete(i, resp)
            => /\ store' = store
               /\ flushTimeout # "null"
                    => Cardinality(FlushTimers') = Cardinality(FlushTimers)]_vars

\* A second put has just been made while the flush timer armed by an
\* earlier put is still pending.
C20_Witness ==
  /\ last.op = "complete"
  /\ last.outcome = "result"
  /\ \E i \in FlushTimers : \E id1, id2 \in DOMAIN expiresAt :
       /\ timers[i].due = expiresAt[id1] - CacheExpiryMs + FlushDelay
       /\ expiresAt[id2] = now + CacheExpiryMs
       /\ expiresAt[id1] < expiresAt[id2]

\* C21: init starts the watchers in every session, so whenever init has run
\* to its end and the session is enabled, from startup or after a toggle,
\* the mutation observer is running and an insertion is followed by a scan.
C21_WatchersRunWhenEnabled ==
  (initPc = "done" /\ extensionEnabled) => observerOn

\* The re-scans the mutation observer has scheduled and that have not run.
WatcherScans == {i \in 1..Len(timers) : timers[i].fn = "observerScan"}

\* C22: re-scans triggered by the mutation observer are debounced: at most
\* one of them is pending at any time, so a burst of insertions less than
\* 500 ms apart ends in one scan.
C22_OnePendingRescan ==
  Cardinality(WatcherScans) <= 1

\* The identity of tweet article e as the host page rendered it.
HostId(e) == generateTweetId(extractTweetText(hostPage[e]))

\* Tweet article e would reach processTweet's cache lookup, and the cache
\* holds an entry for its identity whose lifetime has not ended.
LiveHit(e) ==
  /\ extensionEnabled
  /\ tweets[e].factChecked = "none"
  /\ HasText(tweets[e])
  /\ ~TooShort(extractTweetText(tweets[e]))
  /\ IdOf(e) \in DOMAIN tweetCache
  /\ now < expiresAt[IdOf(e)]

\* C23: when processTweet runs for a tweet article whose identity has a live
\* cache entry, the cached verdict is rendered at once and nothing is
\* enqueued: the queue, the calls in flight, processingTweets and the calls
\* issued stay as they are.
C23_HitRendersWithoutRequest ==
  [][\A e \in Tweets :
       (LiveHit(e) /\ Click(e))
         => /\ tweets'[e] = applyMarkup(tweets[e], tweetCache[IdOf(e)])
            /\ tweets'[e].factChecked = "true"
            /\ Markers(tweets'[e]) # Markers(tweets[e])
            /\ requestQueue' = requestQueue
            /\ inFlight' = inFlight
            /\ processingTweets' = processingTweets
            /\ callLog' = callLog]_vars

\* processTweet has just rendered a cached verdict whose lifetime has not
\* ended.
C23_Witness ==
  /\ last.op = "processTweet"
  /\ last.outcome = "cached"
  /\ tweets[last.el].factChecked = "true"
  /\ HostId(last.el) \in DOMAIN tweetCache
  /\ now < expiresAt[HostId(last.el)]

\* C24: for a verdict without issues the renderer adds one verified badge
\* and no other marker, and the text extractTweetText reads from the tweet
\* article, which generateTweetId hashes, stays as it was.
C24_VerifiedKeepsText ==
  [][\A e \in Tweets : \A v \in Verdicts :
       (Render(e, v) /\ ~v.hasIssues /\ HasText(tweets[e]))
         => /\ Markers(tweets'[e]) =
                 [Markers(tweets[e]) EXCEPT !.verified = @ + 1]
            /\ extractTweetText(tweets'[e]) = extractTweetText(tweets[e])]_vars

\* The correction spans the renderer appends for the list cs, in list order.
CorrectionBlock(cs) ==
  LET Step(acc, i) ==
        acc \o CorrectionOpen \o <<" ", "[">> \o cs[i] \o <<"]">> \o SpanClose
  IN FoldIdx(Step, <<>>, 1, Len(cs))

\* The last n characters of s.
Suffix(s, n) == SubSeq(s, Len(s) - n + 1, Len(s))

\* C25: for a verdict with issues the renderer appends one correction
\* marker per entry of corrections, in list order and after everything the
\* text element held, whatever the length of the incorrect list, and adds
\* one warning badge.
C25_CorrectionsAppended ==
  [][\A e \in Tweets : \A v \in MarkupVerdicts :
       (Render(e, v) /\ v.hasIssues /\ HasText(tweets[e]))
         => LET block == CorrectionBlock(v.corrections)
                before == Markers(tweets[e])
                after == Markers(tweets'[e])
            IN /\ after.correction = before.correction + Len(v.corrections)
               /\ Len(tweets'[e].html) >= Len(tweets[e].html) + Len(block)
               /\ Suffix(tweets'[e].html, Len(block)) = block
               /\ after.warning = before.warning + 1
               /\ after.verified = before.verified]_vars

\* A tweet article has been rendered once, with the verdict that has two
\* corrections and no incorrect phrase.
C25_Witness ==
  \E e \in Tweets :
    /\ tweets[e] = applyMarkup(hostPage[e], VerdictCorrectionsOnly)
    /\ Markers(tweets[e]) =
         [verified |-> 0, incorrect |-> 0, correction |-> 2, warning |-> 1]

\* How often phrase p occurs in text, compared case-insensitively.
Occurrences(text, p) == Cardinality({i \in 1..Len(text) : MatchAt(text, p, i)})

\* How often the phrases of list ps occur in text, taken together.
PhraseOccurrences(text, ps) ==
  LET Step(acc, i) == acc + Occurrences(text, ps[i])
  IN FoldIdx(Step, 0, 1, Len(ps))

\* C26: for a verdict with issues, rendered on a tweet article as the host
\* page made it, the incorrect markers are as many as the occurrences of the
\* incorrect phrases in the article's text, a phrase the text does not hold
\* adds none, and the text stays as it was up to the appended corrections.
C26_WrapsTextOccurrencesOnly ==
  [][\A e \in Tweets : \A v \in MarkupVerdicts :
       (Render(e, v) /\ v.hasIssues /\ HasText(tweets[e])
          /\ tweets[e] = hostPage[e])
         => LET text == TextContent(hostPage[e].html)
            IN /\ Markers(tweets'[e]).incorrect =
                    PhraseOccurrences(text, v.incorrect)
               /\ TextContent(MarkIncorrect(hostPage[e].html, v.incorrect))
                    = text]_vars

\* C27: a wrong-shaped verdict in a successful response is read as "no
\* issues, no phrases": no render throws, no tweet article is left flagged
\* as checked without an annotation, and the cache holds no verdict that
\* cannot be rendered.
C27_MalformedIsSafe ==
  /\ last.outcome # "threw"
  /\ \A e \in Tweets :
       tweets[e].factChecked = "true" => Markers(tweets[e]) # NoMarkers
  /\ \A id \in DOMAIN tweetCache :
       \A e \in Tweets : ~RenderThrows(hostPage[e], tweetCache[id])

\* No request is pending and processingTweets is empty.
Drained == Pending = <<>> /\ processingTweets = {}

\* Every request enqueued so far is in the queue or has been dispatched,
\* and every request in flight has been dispatched.
NoneLost ==
  /\ Tickets(requestQueue) \cup Tickets(callLog) = 1..Enqueued
  /\ Tickets(inFlight) \subseteq Tickets(callLog)

\* C28: when every call settles and timers fire, no request is starved: a
\* request leaves the queue only by being dispatched, and the queue, the
\* calls in flight and processingTweets become empty again and again,
\* whatever was enqueued during a rate-limit wait or while a call was in
\* flight; so every request enqueued is dispatched and completes.
C28_NoStarvation ==
  /\ []NoneLost
  /\ []<>Drained

\* Three calls were issued at the shortest spacing, so the second and the
\* third request waited in the queue through a call in flight and a
\* rate-limit wait, and all of them have completed.
C28_Witness ==
  /\ Len(callLog) >= 3
  /\ callLog[3].at - callLog[1].at = 2 * MIN_REQUEST_INTERVAL
  /\ Drained

\* The pending timers that go on with a dispatcher loop after its wait, and
\* the ones that call processRequestQueue again.
ResumeTimers == {i \in 1..Len(timers) : timers[i].fn = "resume"}
WakeTimers == {i \in 1..Len(timers) : timers[i].fn = "processRequestQueue"}

\* C29: no wake-up of the dispatcher is lost: while requests wait and no
\* call is in flight, a dispatcher loop is active or a timer that calls
\* processRequestQueue is pending; isProcessingQueue is set exactly while a
\* loop is suspended in its rate-limit wait; and such a loop finds a request
\* in the queue when it goes on.
C29_NoLostWakeup ==
  /\ (requestQueue # <<>> /\ inFlight = <<>>)
       => (isProcessingQueue \/ WakeTimers # {})
  /\ isProcessingQueue <=> Cardinality(ResumeTimers) = 1
  /\ isProcessingQueue => requestQueue # <<>>

\* A dispatcher loop is suspended in its rate-limit wait after an earlier
\* call, and two requests wait in the queue.
C29_Witness ==
  /\ isProcessingQueue
  /\ ResumeTimers # {}
  /\ inFlight = <<>>
  /\ Len(requestQueue) = 2
  /\ callLog # <<>>

\* C30: a tweet article is flagged 'loading' only while a request for it is
\* pending and its identity is in processingTweets: once the request has
\* completed, by a verdict, by a failure or by a render that was skipped,
\* the flag is gone.
C30_LoadingOnlyWhilePending ==
  \A e \in Tweets :
    tweets[e].factChecked = "loading"
      => \E i \in 1..Len(Pending) :
           Pending[i].el = e /\ Pending[i].id \in processingTweets

\* The verdict of identity id is in tweetCache / in the persisted snapshot.
Cached(id) == id \in DOMAIN tweetCache
Persisted(id) == store.set /\ id \in DOMAIN store.obj

\* C31: while storage stays available, every verdict that saveCacheEntry
\* has put into tweetCache is eventually contained in a persisted snapshot,
\* also when the put happens while a flush awaits its storage write and
\* also in a session that started disabled and was enabled later.
C31_PutIsPersisted ==
  \A e \in Tweets : Cached(HostId(e)) ~> Persisted(HostId(e))

\* The value the popup's toggle has persisted last, or the default.
PersistedEnabled ==
  IF storedEnabled = "unset" THEN DEFAULT_ENABLED ELSE storedEnabled = "true"

\* C32: once init has run and every toggle message has been received, the
\* content script's extensionEnabled equals the value the popup persisted
\* last; a toggle message received while loadEnabledState awaits its read is
\* not overwritten by the older value the read returns.
C32_FlagMatchesPersisted ==
  (initPc = "done" /\ messages = <<>>) => extensionEnabled = PersistedEnabled

====
